---- MODULE Spec2Model ----
(***************************************************************************)
(* Heightmap-to-mesh pipeline of the 3D terrain generator                  *)
(* (client/src/utils/terrainGenerator.ts: processHeightmap,                *)
(* loadHeightmapData, generateTerrainGeometry, getTerrainColor).           *)
(*                                                                         *)
(* Numbers.  A JavaScript number is modelled as a triple <<n, d, e>>:      *)
(*   d > 0 : the rational n/d in lowest terms, plus e times a positive     *)
(*           rounding residual that is smaller than any gap the program    *)
(*           compares against (e in {-1, 0, 1}; e = 0 means exact);        *)
(*   d = 0 : an IEEE special value: <<0,0,0>> is NaN, <<1,0,0>> is         *)
(*           +Infinity, <<-1,0,0>> is -Infinity.                           *)
(* The residual is the one the code itself introduces by storing           *)
(* grayscale / 255 in a Float32Array and multiplying it back by 255: its   *)
(* sign decides the result of a division by zero and whether a value       *)
(* sits exactly on a clamp bound.  Other roundings (double arithmetic,     *)
(* the later Float32Array stores) are not tracked: such values stand for   *)
(* the real number they approximate.  Luminance is kept as the exact       *)
(* integer 10000 * grayscale.                                              *)
(***************************************************************************)
EXTENDS Integers, Sequences, FiniteSets

VARIABLES
    pc,           \* position of the processHeightmap call
    pixels,       \* imageData.data as a sequence of <<r, g, b>>, row-major
    resolution,   \* parameter resolution
    heightScale,  \* parameter heightScale
    heightData,   \* the Float32Array resolved by loadHeightmapData
    result,       \* the TerrainResult returned by generateTerrainGeometry
    error,        \* message of the Error the promise was rejected with
    probeHeight,  \* normalizedHeight argument of a direct getTerrainColor call
    color,        \* hex value of the THREE.Color that call returned (0: none yet)
    analysis,     \* the statistics of the "Image analysis" log line
    calls,        \* the calls that have returned, oldest first
    grayscale,    \* 10000 * grayscale of the pixel a loader last converted
    smoothedData, \* the cells of smoothedData written so far in the smoothing pass
    build,        \* which application runs: "react", "standalone" or "html"
    viewer,       \* TerrainViewer: the terrain mesh, its geometry and material
    controls,     \* TerrainControls: isWireframe, isProcessing, stats
    loads         \* the heightmap uploads started so far, oldest first

\* The state of the user interface.
uiVars == <<build, viewer, controls, loads>>

vars == <<pc, pixels, resolution, heightScale, heightData, result, error,
          probeHeight, color, analysis, calls, grayscale, smoothedData, uiVars>>

\* No application is running: the pipeline is called on its own.
UiIdle ==
    /\ build = "none"
    /\ viewer = <<>>
    /\ controls = <<>>
    /\ loads = <<>>

----------------------------------------------------------------------------
(* Arithmetic on modelled numbers *)

Abs(a) == IF a < 0 THEN -a ELSE a

Sign(a) == IF a > 0 THEN 1 ELSE IF a < 0 THEN -1 ELSE 0

RECURSIVE Gcd(_, _)
Gcd(a, b) == IF b = 0 THEN Abs(a) ELSE Gcd(b, a % Abs(b))

\* The number n/d (d # 0) with residual sign e, in lowest terms with d > 0.
Num(n, d, e) ==
    LET g == Gcd(n, d)
        s == IF d < 0 THEN -1 ELSE 1
    IN  <<s * (n \div g), s * (d \div g), e>>

Whole(k) == <<k, 1, 0>>

NaN == <<0, 0, 0>>

PosInf == <<1, 0, 0>>

NegInf == <<-1, 0, 0>>

IsNaN(x) == x[2] = 0 /\ x[1] = 0

IsFinite(x) == x[2] > 0

\* Sign of a number, the residual deciding when the rational part is zero.
Sgn(x) == IF x[1] # 0 THEN Sign(x[1]) ELSE x[3]

Neg(x) == <<-x[1], x[2], -x[3]>>

\* x + y (IEEE: NaN propagates, Infinity - Infinity is NaN).
Add(x, y) ==
    IF IsNaN(x) \/ IsNaN(y) THEN NaN
    ELSE IF ~IsFinite(x) /\ ~IsFinite(y) THEN (IF x[1] = y[1] THEN x ELSE NaN)
    ELSE IF ~IsFinite(x) THEN x
    ELSE IF ~IsFinite(y) THEN y
    ELSE LET g == Gcd(x[2], y[2])
             l == (x[2] \div g) * y[2]
         IN  Num(x[1] * (l \div x[2]) + y[1] * (l \div y[2]), l, Sign(x[3] + y[3]))

Sub(x, y) == Add(x, Neg(y))

\* x * y (IEEE: 0 * Infinity is NaN).
Mul(x, y) ==
    IF IsNaN(x) \/ IsNaN(y) THEN NaN
    ELSE IF ~IsFinite(x) \/ ~IsFinite(y)
         THEN (IF Sgn(x) * Sgn(y) = 0 THEN NaN ELSE <<Sgn(x) * Sgn(y), 0, 0>>)
    ELSE LET g1 == Gcd(x[1], y[2])
             g2 == Gcd(y[1], x[2])
             k1 == IF g1 = 0 THEN 1 ELSE g1
             k2 == IF g2 = 0 THEN 1 ELSE g2
         IN  Num((x[1] \div k1) * (y[1] \div k2), (x[2] \div k2) * (y[2] \div k1),
                 Sign(x[3] * Sign(y[1]) + y[3] * Sign(x[1])))

\* x / y (IEEE: 0/0 is NaN, a nonzero number over zero is an Infinity of
\* the sign of the quotient, a finite number over an Infinity is 0).
Div(x, y) ==
    IF IsNaN(x) \/ IsNaN(y) THEN NaN
    ELSE IF ~IsFinite(y) THEN (IF IsFinite(x) THEN Whole(0) ELSE NaN)
    ELSE IF ~IsFinite(x) THEN <<x[1] * (IF Sgn(y) < 0 THEN -1 ELSE 1), 0, 0>>
    ELSE IF y[1] = 0
         THEN (IF Sgn(x) = 0 THEN NaN
               ELSE <<Sgn(x) * (IF y[3] < 0 THEN -1 ELSE 1), 0, 0>>)
    ELSE LET g1 == Gcd(x[1], y[1])
             g2 == Gcd(x[2], y[2])
             k1 == IF g1 = 0 THEN 1 ELSE g1
         IN  Num((x[1] \div k1) * (y[2] \div g2), (x[2] \div g2) * (y[1] \div k1),
                 x[3] * Sign(y[1]))

\* x < y (IEEE: every comparison with NaN is false).
Less(x, y) ==
    IF IsNaN(x) \/ IsNaN(y) THEN FALSE
    ELSE IF ~IsFinite(x) \/ ~IsFinite(y)
         THEN (IF IsFinite(x) THEN y[1] > 0
               ELSE IF IsFinite(y) THEN x[1] < 0
               ELSE x[1] < y[1])
    ELSE \/ x[1] * y[2] < y[1] * x[2]
         \/ x[1] * y[2] = y[1] * x[2] /\ x[3] < y[3]

\* Math.min and Math.max return NaN when either argument is NaN.
MathMin(x, y) == IF IsNaN(x) \/ IsNaN(y) THEN NaN ELSE IF Less(y, x) THEN y ELSE x

MathMax(x, y) == IF IsNaN(x) \/ IsNaN(y) THEN NaN ELSE IF Less(x, y) THEN y ELSE x

----------------------------------------------------------------------------
(* Float32Array store of grayscale / 255 *)

\* Long division of n/d (0 < n, 0 < d) down to a 24-bit significand q with
\* remainder r: the sign of (nearest float32 - n/d), ties to even.
RECURSIVE RoundingSign(_, _, _)
RoundingSign(q, r, d) ==
    IF q >= 8388608
    THEN IF 2 * r > d THEN 1
         ELSE IF 2 * r < d THEN (IF r = 0 THEN 0 ELSE -1)
         ELSE IF q % 2 = 1 THEN 1 ELSE -1
    ELSE IF 2 * r >= d THEN RoundingSign(2 * q + 1, 2 * r - d, d)
         ELSE RoundingSign(2 * q, 2 * r, d)

\* The float32 nearest to n/d (n >= 0, d > 0): n/d with the sign of the
\* rounding error as residual.
Fround(n, d) ==
    IF n = 0 THEN Whole(0) ELSE Num(n, d, RoundingSign(n \div d, n % d, d))

----------------------------------------------------------------------------
(* loadHeightmapData: img.onload *)

\* 10000 * (0.2126 * r + 0.7152 * g + 0.0722 * b)
Grayscale(px) == 2126 * px[1] + 7152 * px[2] + 722 * px[3]

Min2(a, b) == IF a < b THEN a ELSE b

Max2(a, b) == IF a > b THEN a ELSE b

\* (faulty variant: minBrightness starts at 0)
RECURSIVE MinBrightnessFromZero(_, _)
MinBrightnessFromZero(data, i) ==
    IF i = 0 THEN 0
    ELSE Min2(MinBrightnessFromZero(data, i - 1), Grayscale(data[i]))

\* minBrightness after the first i pixels (starts at 255), times 10000.
RECURSIVE MinBrightness(_, _)
MinBrightness(data, i) ==
    IF i = 0 THEN 255 * 10000
    ELSE Min2(MinBrightness(data, i - 1), Grayscale(data[i]))

\* maxBrightness after the first i pixels (starts at 0), times 10000.
RECURSIVE MaxBrightness(_, _)
MaxBrightness(data, i) ==
    IF i = 0 THEN 0
    ELSE Max2(MaxBrightness(data, i - 1), Grayscale(data[i]))

\* totalBrightness after the first i pixels, times 10000.
RECURSIVE TotalBrightness(_, _)
TotalBrightness(data, i) ==
    IF i = 0 THEN 0
    ELSE TotalBrightness(data, i - 1) + Grayscale(data[i])

\* The statistics after the extraction loop; contrast and avgBrightness are
\* the two numbers of the "Image analysis" log line (the latter before its
\* division by 255).
ImageAnalysis(data, R) ==
    LET minB == MinBrightness(data, Len(data))
        maxB == MaxBrightness(data, Len(data))
        total == TotalBrightness(data, Len(data))
    IN  [minBrightness |-> minB, maxBrightness |-> maxB, totalBrightness |-> total,
         contrast |-> Div(Sub(Num(maxB, 10000, 0), Num(minB, 10000, 0)), Whole(255)),
         avgBrightness |-> Div(Num(total, 10000, 0), Whole(R * R))]

\* The value of analysis before the extraction loop has run.
NoAnalysis ==
    [minBrightness |-> 255 * 10000, maxBrightness |-> 0, totalBrightness |-> 0,
     contrast |-> Whole(0), avgBrightness |-> Whole(0)]

\* heightData after the extraction loop: grayscale / 255 as float32.
RawHeights(data) == [i \in 1..Len(data) |-> Fround(Grayscale(data[i]), 255 * 10000)]

\* (faulty variant: the threshold test is >= instead of >)
HighContrastInclusive(data) ==
    (MaxBrightness(data, Len(data)) - MinBrightness(data, Len(data))) * 10
        >= 7 * 255 * 10000

\* contrast > 0.7, with contrast = (maxBrightness - minBrightness) / 255
HighContrast(data) ==
    (MaxBrightness(data, Len(data)) - MinBrightness(data, Len(data))) * 10
        > 7 * 255 * 10000

\* One cell of the normalization loop:
\* Math.max(0, Math.min(1, (h * 255 - minBrightness) / (maxBrightness - minBrightness)))
NormalizeCell(h, minB, maxB) ==
    LET normalized == Div(Sub(Mul(h, Whole(255)), Num(minB, 10000, 0)),
                          Sub(Num(maxB, 10000, 0), Num(minB, 10000, 0)))
    IN  MathMax(Whole(0), MathMin(Whole(1), normalized))

\* heightData after the normalization loop.
Normalized(data) ==
    LET raw == RawHeights(data)
        minB == MinBrightness(data, Len(data))
        maxB == MaxBrightness(data, Len(data))
    IN  [i \in 1..Len(data) |-> NormalizeCell(raw[i], minB, maxB)]

smoothRadius == 1

\* sum and count of one cell's window after its first k offsets, taken in
\* the order of the dy (outer) and dx (inner) loops.
RECURSIVE WindowAcc(_, _, _, _, _)
WindowAcc(h, R, x, y, k) ==
    IF k = 0 THEN <<Whole(0), 0>>
    ELSE LET side == 2 * smoothRadius + 1
             prev == WindowAcc(h, R, x, y, k - 1)
             dy == ((k - 1) \div side) - smoothRadius
             dx == ((k - 1) % side) - smoothRadius
             nx == x + dx
             ny == y + dy
         IN  IF nx >= 0 /\ nx < R /\ ny >= 0 /\ ny < R
             THEN <<Add(prev[1], h[ny * R + nx + 1]), prev[2] + 1>>
             ELSE prev

\* (faulty variant: the sum is divided by the full window size, not by count)
SmoothCellFullWindow(h, R, x, y) ==
    LET side == 2 * smoothRadius + 1
        acc == WindowAcc(h, R, x, y, side * side)
    IN  Div(acc[1], Whole(side * side))

\* smoothedData[y * resolution + x] = sum / count
SmoothCell(h, R, x, y) ==
    LET side == 2 * smoothRadius + 1
        acc == WindowAcc(h, R, x, y, side * side)
    IN  Div(acc[1], Whole(acc[2]))

\* smoothedData after the smoothing loops, computed from heightData h.
Smoothed(h, R) == [i \in 1..Len(h) |-> SmoothCell(h, R, (i - 1) % R, (i - 1) \div R)]

\* (faulty variant: the smoothed data is never copied back)
LoadHeightmapDataUnsmoothed(data, R) == Normalized(data)

\* The array img.onload resolves the promise with.
LoadHeightmapData(data, R) ==
    IF HighContrast(data) THEN Smoothed(Normalized(data), R) ELSE Normalized(data)

----------------------------------------------------------------------------
(* getTerrainColor and generateTerrainGeometry *)

\* (faulty variant: the band tests are <= instead of <)
GetTerrainColorInclusive(normalizedHeight) ==
    IF ~Less(Num(2, 10, 0), normalizedHeight) THEN 1982639
    ELSE IF ~Less(Num(4, 10, 0), normalizedHeight) THEN 16498468
    ELSE IF ~Less(Num(7, 10, 0), normalizedHeight) THEN 1483594
    ELSE IF ~Less(Num(9, 10, 0), normalizedHeight) THEN 7041664
    ELSE 16777215

\* getTerrainColor: the hex value handed to new THREE.Color.
GetTerrainColor(normalizedHeight) ==
    IF Less(normalizedHeight, Num(2, 10, 0)) THEN 1982639        \* 0x1e40af
    ELSE IF Less(normalizedHeight, Num(4, 10, 0)) THEN 16498468  \* 0xfbbf24
    ELSE IF Less(normalizedHeight, Num(7, 10, 0)) THEN 1483594   \* 0x16a34a
    ELSE IF Less(normalizedHeight, Num(9, 10, 0)) THEN 7041664   \* 0x6b7280
    ELSE 16777215                                                \* 0xffffff

\* color.r, color.g, color.b of new THREE.Color(hex), as 8-bit channels.
ColorChannels(hex) == <<hex \div 65536, (hex \div 256) % 256, hex % 256>>

terrainSize == 100

\* The <<z, x>> pairs visited by "for z < nz: for x < nx", in order.
GridCells(nz, nx) ==
    IF nz <= 0 \/ nx <= 0 THEN <<>>
    ELSE [k \in 1..(nz * nx) |-> <<(k - 1) \div nx, (k - 1) % nx>>]

\* The array after pushing the first k chunks of a sequence of chunks.
RECURSIVE Pushed(_, _)
Pushed(chunks, k) == IF k = 0 THEN <<>> ELSE Pushed(chunks, k - 1) \o chunks[k]

StepSize(R) == Div(Whole(terrainSize), Whole(R - 1))

\* height = heightData[index] * heightScale
Height(h, R, scale, z, x) == Mul(h[z * R + x + 1], Whole(scale))

\* (faulty variant: the offset 5 is scaled together with the height)
VertexPushOffsetScaled(h, R, scale, z, x) ==
    <<Mul(Sub(Whole(x), Div(Whole(R), Whole(2))), StepSize(R)),
      Mul(Add(h[z * R + x + 1], Whole(5)), Whole(scale)),
      Mul(Sub(Whole(z), Div(Whole(R), Whole(2))), StepSize(R))>>

\* (faulty variant: the grid is centred on (resolution - 1) / 2)
VertexPushCentred(h, R, scale, z, x) ==
    <<Mul(Sub(Whole(x), Div(Whole(R - 1), Whole(2))), StepSize(R)),
      Add(Height(h, R, scale, z, x), Whole(5)),
      Mul(Sub(Whole(z), Div(Whole(R - 1), Whole(2))), StepSize(R))>>

\* vertices.push(worldX, height + 5, worldZ)
VertexPush(h, R, scale, z, x) ==
    <<Mul(Sub(Whole(x), Div(Whole(R), Whole(2))), StepSize(R)),
      Add(Height(h, R, scale, z, x), Whole(5)),
      Mul(Sub(Whole(z), Div(Whole(R), Whole(2))), StepSize(R))>>

\* (faulty variant: the divisor is resolution)
UvPushByResolution(R, z, x) == <<Div(Whole(x), Whole(R)), Div(Whole(z), Whole(R))>>

\* uvs.push(x / (resolution - 1), z / (resolution - 1))
UvPush(R, z, x) == <<Div(Whole(x), Whole(R - 1)), Div(Whole(z), Whole(R - 1))>>

\* (faulty variant: the scaled height is classified)
ColorPushScaled(h, R, scale, z, x) ==
    ColorChannels(GetTerrainColor(Height(h, R, scale, z, x)))

\* colors.push(color.r, color.g, color.b), color = getTerrainColor(height / heightScale)
ColorPush(h, R, scale, z, x) ==
    ColorChannels(GetTerrainColor(Div(Height(h, R, scale, z, x), Whole(scale))))

\* (faulty variant: the first triangle is wound the other way)
IndexPushFlipped(R, z, x) ==
    LET topLeft == z * R + x
        topRight == z * R + x + 1
        bottomLeft == (z + 1) * R + x
        bottomRight == (z + 1) * R + x + 1
    IN  <<topLeft, topRight, bottomLeft, topRight, bottomLeft, bottomRight>>

\* The two indices.push calls of one quad.
IndexPush(R, z, x) ==
    LET topLeft == z * R + x
        topRight == z * R + x + 1
        bottomLeft == (z + 1) * R + x
        bottomRight == (z + 1) * R + x + 1
    IN  <<topLeft, bottomLeft, topRight, topRight, bottomLeft, bottomRight>>

\* The cells of the vertex loops and of the index loops.
\* (faulty variant: the inner vertex loop stops one column early)
VertexCellsShort(R) == GridCells(R, R - 1)

VertexCells(R) == GridCells(R, R)

\* (faulty variant: the index loops run over every vertex instead of every quad)
QuadCellsFull(R) == GridCells(R, R)

QuadCells(R) == GridCells(R - 1, R - 1)

GenerateTerrainGeometry(h, R, scale) ==
    LET vc == VertexCells(R)
        qc == QuadCells(R)
        vertices == Pushed([k \in 1..Len(vc) |-> VertexPush(h, R, scale, vc[k][1], vc[k][2])], Len(vc))
        colors == Pushed([k \in 1..Len(vc) |-> ColorPush(h, R, scale, vc[k][1], vc[k][2])], Len(vc))
        uvs == Pushed([k \in 1..Len(vc) |-> UvPush(R, vc[k][1], vc[k][2])], Len(vc))
        indices == Pushed([k \in 1..Len(qc) |-> IndexPush(R, qc[k][1], qc[k][2])], Len(qc))
    IN  [position |-> vertices, color |-> colors, uv |-> uvs, index |-> indices,
         vertexCount |-> Len(vertices) \div 3, faceCount |-> Len(indices) \div 3]

\* The value of result before generateTerrainGeometry has returned.
NoResult ==
    [position |-> <<>>, color |-> <<>>, uv |-> <<>>, index |-> <<>>,
     vertexCount |-> 0, faceCount |-> 0]

----------------------------------------------------------------------------
(* Inputs *)

MaxRes == 3

Resolutions == 2..MaxRes

HeightScales == {5, 20}

Gray(v) == <<v, v, v>>

\* Three-colour palettes, darkest first.  The third spans a contrast of
\* exactly 0.7 (luminance 57.419 and 235.919).
Palettes ==
    { <<Gray(0), Gray(128), Gray(254)>>,
      <<Gray(100), Gray(125), Gray(150)>>,
      <<<<17, 72, 32>>, Gray(128), <<242, 255, 29>>>> }

\* A background colour with up to two cells of other colours.
SpotImage(pal, R, b, s1, l1, s2, l2) ==
    [i \in 1..(R * R) |-> IF i = s2 THEN pal[l2] ELSE IF i = s1 THEN pal[l1] ELSE pal[b]]

\* Alternating luminance 0 and 255.
Checkerboard(R) ==
    [i \in 1..(R * R) |-> IF (((i - 1) \div R) + ((i - 1) % R)) % 2 = 0 THEN Gray(0) ELSE Gray(255)]

\* Luminance rising linearly from 100 to 150 along each row.
Gradient(R) == [i \in 1..(R * R) |-> Gray(100 + ((50 * ((i - 1) % R)) \div (R - 1)))]

Images(R) ==
    { SpotImage(pal, R, b, s1, l1, s2, l2) :
        pal \in Palettes, b \in 1..3, s1 \in 1..(R * R), l1 \in 1..3,
        s2 \in 1..(R * R), l2 \in 1..3 }
    \cup {Checkerboard(R), Gradient(R)}

----------------------------------------------------------------------------
(* processHeightmap *)

Init ==
    /\ pc = "loading"
    /\ resolution \in Resolutions
    /\ pixels \in Images(resolution)
    /\ heightScale \in HeightScales
    /\ heightData = <<>>
    /\ result = NoResult
    /\ error = ""
    /\ probeHeight = Whole(0)
    /\ color = 0
    /\ analysis = NoAnalysis
    /\ calls = <<>>
    /\ grayscale = 0
    /\ smoothedData = <<>>
    /\ UiIdle

\* canvas.getContext('2d') returned null.
NoCanvasContext ==
    /\ pc = "loading"
    /\ pc' = "rejected"
    /\ error' = "Could not get canvas context"
    /\ UNCHANGED <<uiVars, smoothedData, pixels, resolution, heightScale, heightData, result, probeHeight, color,
                   analysis, calls, grayscale>>

\* img.onerror
ImgOnerror ==
    /\ pc = "loading"
    /\ pc' = "rejected"
    /\ error' = "Failed to load heightmap image"
    /\ UNCHANGED <<uiVars, smoothedData, pixels, resolution, heightScale, heightData, result, probeHeight, color,
                   analysis, calls, grayscale>>

\* (faulty variant: minBrightness and maxBrightness are kept from the
\* previous call instead of being initialised in the handler)
ImgOnloadCarried ==
    /\ pc = "loading"
    /\ heightData' =
           LET prior == IF calls = <<>> THEN <<>> ELSE calls[Len(calls)].pixels
               field == Normalized(prior \o pixels)
           IN  [i \in 1..Len(pixels) |-> field[Len(prior) + i]]
    /\ analysis' = ImageAnalysis(pixels, resolution)
    /\ pc' = "loaded"
    /\ UNCHANGED <<uiVars, smoothedData, pixels, resolution, heightScale, result, error, probeHeight, color,
                   calls, grayscale>>

\* img.onload: the promise resolves with the height data.
ImgOnload ==
    /\ pc = "loading"
    /\ heightData' = LoadHeightmapData(pixels, resolution)
    /\ analysis' = ImageAnalysis(pixels, resolution)
    /\ pc' = "loaded"
    /\ UNCHANGED <<uiVars, smoothedData, pixels, resolution, heightScale, result, error, probeHeight, color,
                   calls, grayscale>>

\* (faulty variant: a field without variation is refused)
GenerateRejectingFlat ==
    /\ pc = "loaded"
    /\ IF \A i \in 1..Len(heightData) : heightData[i] = heightData[1]
       THEN /\ pc' = "rejected"
            /\ error' = "Image has no height variation"
            /\ result' = result
       ELSE /\ pc' = "returned"
            /\ error' = error
            /\ result' = GenerateTerrainGeometry(heightData, resolution, heightScale)
    /\ UNCHANGED <<uiVars, smoothedData, pixels, resolution, heightScale, heightData, probeHeight, color,
                   analysis, calls, grayscale>>

\* processHeightmap resumes after the await and returns the result.
Generate ==
    /\ pc = "loaded"
    /\ result' = GenerateTerrainGeometry(heightData, resolution, heightScale)
    /\ pc' = "returned"
    /\ UNCHANGED <<uiVars, smoothedData, pixels, resolution, heightScale, heightData, error, probeHeight, color,
                   analysis, calls, grayscale>>

Next == NoCanvasContext \/ ImgOnerror \/ ImgOnload \/ Generate

Spec == Init /\ [][Next]_vars

----------------------------------------------------------------------------
(* getTerrainColor called on its own *)

\* Heights k/10000 around every hundredth of [0, 1].
ProbeHeights == {Num(k, 10000, 0) : k \in {j \in 0..10000 : j % 100 \in {0, 1, 99}}}

ColorInit ==
    /\ pc = "classify"
    /\ probeHeight \in ProbeHeights
    /\ color = 0
    /\ pixels = <<>>
    /\ resolution = 0
    /\ heightScale = 0
    /\ heightData = <<>>
    /\ result = NoResult
    /\ error = ""
    /\ analysis = NoAnalysis
    /\ calls = <<>>
    /\ grayscale = 0
    /\ smoothedData = <<>>
    /\ UiIdle

GetColor ==
    /\ pc = "classify"
    /\ color' = GetTerrainColor(probeHeight)
    /\ pc' = "classified"
    /\ UNCHANGED <<uiVars, smoothedData, pixels, resolution, heightScale, heightData, result, error,
                   probeHeight, analysis, calls, grayscale>>

ColorNext == GetColor

ColorSpec == ColorInit /\ [][ColorNext]_vars

----------------------------------------------------------------------------
(* processHeightmap called with arguments of any value: the exported    *)
(* function takes two numbers and checks neither                        *)

AnyResolutions == {1, 2}

AnyHeightScales == {-5, 0, 5, 20}

\* What getImageData(0, 0, R, R) yields: R * R pixels, whatever R is.
AnyImages(R) ==
    IF R = 1 THEN {<<Gray(0)>>, <<Gray(100)>>, <<Gray(128)>>, <<Gray(150)>>}
    ELSE {Checkerboard(R), Gradient(R), [i \in 1..(R * R) |-> Gray(128)],
          [i \in 1..(R * R) |-> Gray(0)]}

AnyCallInit ==
    /\ pc = "loading"
    /\ resolution \in AnyResolutions
    /\ pixels \in AnyImages(resolution)
    /\ heightScale \in AnyHeightScales
    /\ heightData = <<>>
    /\ result = NoResult
    /\ error = ""
    /\ probeHeight = Whole(0)
    /\ color = 0
    /\ analysis = NoAnalysis
    /\ calls = <<>>
    /\ grayscale = 0
    /\ smoothedData = <<>>
    /\ UiIdle

AnyCallSpec == AnyCallInit /\ [][Next]_vars

----------------------------------------------------------------------------
(* The grayscale conversion of each heightmap loader of the repository *)

\* terrain-generator-complete.html, TerrainGenerator.loadHeightmapData
HtmlGrayscale(px) == 2126 * px[1] + 7152 * px[2] + 722 * px[3]

\* The standalone JavaScript build, TerrainGenerator.loadHeightmapData
StandaloneGrayscale(px) == 2126 * px[1] + 7152 * px[2] + 722 * px[3]

\* The HeightmapProcessor component: 0.299 * r + 0.587 * g + 0.114 * b
HeightmapProcessorGrayscale(px) == 2990 * px[1] + 5870 * px[2] + 1140 * px[3]

ProbeColors == {<<r, g, b>> : r \in {0, 128, 255}, g \in {0, 128, 255}, b \in {0, 128, 255}}

LoadersInit ==
    /\ pc = "extract"
    /\ pixels \in {<<px>> : px \in ProbeColors}
    /\ grayscale = 0
    /\ smoothedData = <<>>
    /\ UiIdle
    /\ resolution = 1
    /\ heightScale = 0
    /\ heightData = <<>>
    /\ result = NoResult
    /\ error = ""
    /\ probeHeight = Whole(0)
    /\ color = 0
    /\ analysis = NoAnalysis
    /\ calls = <<>>

\* One pass of the extraction loop of loadHeightmapData in terrainGenerator.ts.
TerrainGeneratorPixel ==
    /\ pc = "extract"
    /\ grayscale' = Grayscale(pixels[1])
    /\ pc' = "terrainGenerator.ts"
    /\ UNCHANGED <<uiVars, smoothedData, pixels, resolution, heightScale, heightData, result, error,
                   probeHeight, color, analysis, calls>>

\* The same pass in the HTML build.
HtmlPixel ==
    /\ pc = "extract"
    /\ grayscale' = HtmlGrayscale(pixels[1])
    /\ pc' = "terrain-generator-complete.html"
    /\ UNCHANGED <<uiVars, smoothedData, pixels, resolution, heightScale, heightData, result, error,
                   probeHeight, color, analysis, calls>>

\* The same pass in the standalone build.
StandalonePixel ==
    /\ pc = "extract"
    /\ grayscale' = StandaloneGrayscale(pixels[1])
    /\ pc' = "standalone build"
    /\ UNCHANGED <<uiVars, smoothedData, pixels, resolution, heightScale, heightData, result, error,
                   probeHeight, color, analysis, calls>>

\* One pass of the conversion loop of HeightmapProcessor.
HeightmapProcessorPixel ==
    /\ pc = "extract"
    /\ grayscale' = HeightmapProcessorGrayscale(pixels[1])
    /\ pc' = "HeightmapProcessor"
    /\ UNCHANGED <<uiVars, smoothedData, pixels, resolution, heightScale, heightData, result, error,
                   probeHeight, color, analysis, calls>>

LoadersNext == TerrainGeneratorPixel \/ HtmlPixel \/ StandalonePixel \/ HeightmapProcessorPixel

LoadersSpec == LoadersInit /\ [][LoadersNext]_vars

----------------------------------------------------------------------------
(* processHeightmap called several times, one call after the other *)

MaxCalls == 3

\* Resolution and decoded pixels of the images the calls are made with.
CallImages ==
    { <<2, Checkerboard(2)>>, <<2, Gradient(2)>>, <<3, Gradient(3)>>,
      <<2, [i \in 1..4 |-> Gray(128)]>> }

CallsInit ==
    /\ pc = "idle"
    /\ pixels = <<>>
    /\ resolution = 0
    /\ heightScale = 0
    /\ heightData = <<>>
    /\ result = NoResult
    /\ error = ""
    /\ probeHeight = Whole(0)
    /\ color = 0
    /\ analysis = NoAnalysis
    /\ calls = <<>>
    /\ grayscale = 0
    /\ smoothedData = <<>>
    /\ UiIdle

\* A caller invokes processHeightmap: every local of the call starts afresh.
ProcessHeightmap ==
    /\ pc = "idle"
    /\ Len(calls) < MaxCalls
    /\ \E image \in CallImages :
          /\ resolution' = image[1]
          /\ pixels' = image[2]
    /\ heightScale' \in HeightScales
    /\ heightData' = <<>>
    /\ result' = NoResult
    /\ error' = ""
    /\ analysis' = NoAnalysis
    /\ pc' = "loading"
    /\ UNCHANGED <<uiVars, smoothedData, probeHeight, color, calls, grayscale>>

\* The promise settles and control is back with the caller, who keeps the
\* result of a call that returned.
Settle ==
    /\ pc \in {"returned", "rejected"}
    /\ calls' = IF pc = "returned"
                THEN Append(calls, [pixels |-> pixels, resolution |-> resolution,
                                    heightScale |-> heightScale,
                                    heightData |-> heightData, result |-> result])
                ELSE calls
    /\ pc' = "idle"
    /\ UNCHANGED <<uiVars, smoothedData, pixels, resolution, heightScale, heightData, result, error,
                   probeHeight, color, analysis, grayscale>>

CallsNext ==
    ProcessHeightmap \/ NoCanvasContext \/ ImgOnerror \/ ImgOnload \/ Generate \/ Settle

CallsSpec == CallsInit /\ [][CallsNext]_vars

----------------------------------------------------------------------------
(* The smoothing pass of loadHeightmapData cell by cell, the cells taken *)
(* in any order (the code takes them row by row)                         *)

SmoothResolutions == {2, 3}

\* Images of contrast above 0.7.
SmoothImages(R) ==
    LET pal == <<Gray(0), Gray(128), Gray(254)>>
    IN  {Checkerboard(R), SpotImage(pal, R, 1, 1, 3, R * R, 2),
         SpotImage(pal, R, 3, 2, 1, R * R, 2)}

SmoothInit ==
    /\ pc = "smoothing"
    /\ resolution \in SmoothResolutions
    /\ pixels \in SmoothImages(resolution)
    /\ heightScale = 0
    /\ heightData = Normalized(pixels)
    /\ analysis = ImageAnalysis(pixels, resolution)
    /\ result = NoResult
    /\ error = ""
    /\ probeHeight = Whole(0)
    /\ color = 0
    /\ calls = <<>>
    /\ grayscale = 0
    /\ smoothedData = <<>>
    /\ UiIdle

\* (faulty variant: the mean is written into heightData itself, so later
\* cells read neighbours that are already smoothed)
SmoothStepInPlace(i) ==
    /\ pc = "smoothing"
    /\ i \in (1..(resolution * resolution)) \ DOMAIN smoothedData
    /\ LET mean == SmoothCell(heightData, resolution, (i - 1) % resolution,
                              (i - 1) \div resolution)
       IN  /\ heightData' = [heightData EXCEPT ![i] = mean]
           /\ smoothedData' = [j \in DOMAIN smoothedData \cup {i} |->
                                  IF j = i THEN mean ELSE smoothedData[j]]
    /\ UNCHANGED <<uiVars, pc, pixels, resolution, heightScale, result, error,
                   probeHeight, color, analysis, calls, grayscale>>

\* One pass of the body of the x loop: smoothedData[y * resolution + x] = sum / count.
SmoothStep(i) ==
    /\ pc = "smoothing"
    /\ i \in (1..(resolution * resolution)) \ DOMAIN smoothedData
    /\ smoothedData' = [j \in DOMAIN smoothedData \cup {i} |->
                           IF j = i
                           THEN SmoothCell(heightData, resolution, (i - 1) % resolution,
                                           (i - 1) \div resolution)
                           ELSE smoothedData[j]]
    /\ UNCHANGED <<uiVars, pc, pixels, resolution, heightScale, heightData, result, error,
                   probeHeight, color, analysis, calls, grayscale>>

\* The copy-back loop and resolve(heightData).
CopyBack ==
    /\ pc = "smoothing"
    /\ DOMAIN smoothedData = 1..(resolution * resolution)
    /\ heightData' = [i \in 1..(resolution * resolution) |-> smoothedData[i]]
    /\ pc' = "loaded"
    /\ UNCHANGED <<uiVars, smoothedData, pixels, resolution, heightScale, result, error,
                   probeHeight, color, analysis, calls, grayscale>>

SmoothNext == (\E i \in 1..(resolution * resolution) : SmoothStep(i)) \/ CopyBack

SmoothSpec == SmoothInit /\ [][SmoothNext]_vars

----------------------------------------------------------------------------
(* The applications around the pipeline: the React components            *)
(* (TerrainControls.tsx, TerrainViewer.tsx), the standalone JavaScript   *)
(* build and the HTML build.  A geometry is named by a number: 0 is the  *)
(* default terrain the viewer creates, k the geometry of upload k.  Each *)
(* action is one browser task together with the microtasks it starts.    *)

MaxUploads == 2

AppInit ==
    /\ build \in {"react", "standalone", "html"}
    /\ viewer = [mounted |-> build # "react",    \* the React viewer waits for its textures
                 geometry |-> 0,
                 material |-> "solid",
                 materialVertexColors |-> FALSE, \* vertexColors of the material on the mesh
                 solidVertexColors |-> FALSE,    \* vertexColors of React's solidMaterial
                 disposed |-> {}]                \* geometries dispose() was called on
    /\ controls = [isWireframe |-> FALSE, isProcessing |-> FALSE, stats |-> 0]
    /\ loads = <<>>
    /\ pc = "idle"
    /\ pixels = <<>>
    /\ resolution = 0
    /\ heightScale = 0
    /\ heightData = <<>>
    /\ result = NoResult
    /\ error = ""
    /\ probeHeight = Whole(0)
    /\ color = 0
    /\ analysis = NoAnalysis
    /\ calls = <<>>
    /\ grayscale = 0
    /\ smoothedData = <<>>

\* The variables of the pipeline called on its own.
pipelineVars ==
    <<pc, pixels, resolution, heightScale, heightData, result, error, probeHeight,
      color, analysis, calls, grayscale, smoothedData>>

\* TerrainViewer.tsx: the textures have loaded, the mesh is created with
\* the default geometry and solidMaterial, and the listeners are registered.
ViewerMount ==
    /\ build = "react"
    /\ ~viewer.mounted
    /\ viewer' = [viewer EXCEPT !.mounted = TRUE]
    /\ UNCHANGED <<pipelineVars, build, controls, loads>>

\* handleFileUpload of an image file: processHeightmapImage (in the
\* standalone builds handleFileUpload itself) sets isProcessing and awaits
\* processHeightmap.
HandleFileUpload ==
    /\ build \in {"react", "standalone", "html"}
    /\ Len(loads) < MaxUploads
    /\ controls' = [controls EXCEPT !.isProcessing = TRUE]
    /\ loads' = Append(loads, [pc |-> "loading", error |-> "",
                               dispatched |-> FALSE, delivered |-> FALSE])
    /\ UNCHANGED <<pipelineVars, build, viewer>>

\* The same with canvas.getContext('2d') returning null: the promise is
\* rejected at once, and catch and finally run before the task ends.
HandleFileUploadNoContext ==
    /\ build \in {"react", "standalone", "html"}
    /\ Len(loads) < MaxUploads
    /\ controls' = [controls EXCEPT !.isProcessing = FALSE]
    /\ loads' = Append(loads, [pc |-> "rejected", error |-> "Could not get canvas context",
                               dispatched |-> FALSE, delivered |-> FALSE])
    /\ UNCHANGED <<pipelineVars, build, viewer>>

\* (faulty variant: the failure is dispatched like a result and the
\* statistics are reset)
HeightmapRejectsDispatching(k) ==
    /\ build \in {"react", "standalone", "html"}
    /\ loads[k].pc = "loading"
    /\ loads' = [loads EXCEPT ![k].pc = "rejected",
                              ![k].error = "Failed to load heightmap image",
                              ![k].dispatched = TRUE]
    /\ controls' = [controls EXCEPT !.isProcessing = FALSE, !.stats = 0]
    /\ UNCHANGED <<pipelineVars, build, viewer>>

\* img.onerror of upload k: the promise is rejected, processHeightmapImage
\* goes through catch (an alert) and finally.
HeightmapRejects(k) ==
    /\ build \in {"react", "standalone", "html"}
    /\ loads[k].pc = "loading"
    /\ loads' = [loads EXCEPT ![k].pc = "rejected",
                              ![k].error = "Failed to load heightmap image"]
    /\ controls' = [controls EXCEPT !.isProcessing = FALSE]
    /\ UNCHANGED <<pipelineVars, build, viewer>>

\* (faulty variant: the handler assigns the new geometry without
\* disposing the one the mesh holds)
HeightmapResolvesLeaking(k) ==
    /\ build = "react"
    /\ loads[k].pc = "loading"
    /\ loads' = [loads EXCEPT ![k].pc = "returned", ![k].dispatched = TRUE,
                              ![k].delivered = viewer.mounted]
    /\ controls' = [controls EXCEPT !.stats = k, !.isProcessing = FALSE]
    /\ viewer' = IF viewer.mounted THEN [viewer EXCEPT !.geometry = k] ELSE viewer
    /\ UNCHANGED <<pipelineVars, build>>

\* React: processHeightmap of upload k returns.  processHeightmapImage sets
\* the statistics and dispatches heightmapProcessed; handleHeightmapUpdate,
\* if the mesh exists, disposes its geometry, assigns the new one and
\* enables vertexColors when the material on the mesh is a
\* MeshLambertMaterial; finally isProcessing is cleared.
HeightmapResolves(k) ==
    /\ build = "react"
    /\ loads[k].pc = "loading"
    /\ loads' = [loads EXCEPT ![k].pc = "returned", ![k].dispatched = TRUE,
                              ![k].delivered = viewer.mounted]
    /\ controls' = [controls EXCEPT !.stats = k, !.isProcessing = FALSE]
    /\ viewer' =
           IF ~viewer.mounted THEN viewer
           ELSE [viewer EXCEPT
                    !.disposed = @ \cup {viewer.geometry},
                    !.geometry = k,
                    !.solidVertexColors = (viewer.material = "solid") \/ @,
                    !.materialVertexColors = (viewer.material = "solid") \/ @]
    /\ UNCHANGED <<pipelineVars, build>>

\* React: handleWireframeToggle of the controls flips isWireframe and
\* dispatches wireframeToggle; the viewer's handler, if the mesh exists,
\* puts wireframeMaterial or solidMaterial on it.
HandleWireframeToggle ==
    /\ build = "react"
    /\ LET newWireframe == ~controls.isWireframe
       IN  /\ controls' = [controls EXCEPT !.isWireframe = newWireframe]
           /\ viewer' =
                  IF ~viewer.mounted THEN viewer
                  ELSE [viewer EXCEPT
                           !.material = IF newWireframe THEN "wireframe" ELSE "solid",
                           !.materialVertexColors =
                               IF newWireframe THEN FALSE ELSE viewer.solidVertexColors]
    /\ UNCHANGED <<pipelineVars, build, loads>>

\* React: a generateDefaultTerrain event (resolution or height scale slider,
\* preset selection, the button); handleDefaultTerrain disposes the
\* geometry of the mesh and assigns the default geometry of useMemo.
HandleDefaultTerrain ==
    /\ build = "react"
    /\ viewer' =
           IF ~viewer.mounted THEN viewer
           ELSE [viewer EXCEPT !.disposed = @ \cup {viewer.geometry}, !.geometry = 0]
    /\ UNCHANGED <<pipelineVars, build, controls, loads>>

\* Standalone and HTML builds: TerrainViewer.loadHeightmap of upload k gets
\* its result, disposes the geometry of the mesh, assigns the new one and
\* enables vertexColors on a MeshLambertMaterial; handleFileUpload then
\* updates the statistics and clears isProcessing.
LoadHeightmap(k) ==
    /\ build \in {"standalone", "html"}
    /\ loads[k].pc = "loading"
    /\ loads' = [loads EXCEPT ![k].pc = "returned", ![k].dispatched = TRUE,
                              ![k].delivered = TRUE]
    /\ controls' = [controls EXCEPT !.stats = k, !.isProcessing = FALSE]
    /\ viewer' = [viewer EXCEPT
                     !.disposed = @ \cup {viewer.geometry},
                     !.geometry = k,
                     !.materialVertexColors = (viewer.material = "solid") \/ @]
    /\ UNCHANGED <<pipelineVars, build>>

\* Standalone build: toggleWireframe(enabled) makes a new material each
\* time; the solid one copies vertexColors from the material it replaces.
StandaloneToggleWireframe ==
    /\ build = "standalone"
    /\ LET enabled == ~controls.isWireframe
       IN  /\ controls' = [controls EXCEPT !.isWireframe = enabled]
           /\ viewer' = [viewer EXCEPT
                            !.material = IF enabled THEN "wireframe" ELSE "solid",
                            !.materialVertexColors = IF enabled THEN FALSE ELSE @]
    /\ UNCHANGED <<pipelineVars, build, loads>>

\* HTML build: toggleWireframe(enabled) puts this.wireframeMaterial on the
\* mesh or a new MeshLambertMaterial with vertexColors: true.
HtmlToggleWireframe ==
    /\ build = "html"
    /\ LET enabled == ~controls.isWireframe
       IN  /\ controls' = [controls EXCEPT !.isWireframe = enabled]
           /\ viewer' = [viewer EXCEPT
                            !.material = IF enabled THEN "wireframe" ELSE "solid",
                            !.materialVertexColors = ~enabled]
    /\ UNCHANGED <<pipelineVars, build, loads>>

AppNext ==
    \/ ViewerMount
    \/ HandleFileUpload
    \/ HandleFileUploadNoContext
    \/ \E k \in 1..Len(loads) : HeightmapRejects(k)
    \/ \E k \in 1..Len(loads) : HeightmapResolves(k)
    \/ HandleWireframeToggle
    \/ HandleDefaultTerrain
    \/ \E k \in 1..Len(loads) : LoadHeightmap(k)
    \/ StandaloneToggleWireframe
    \/ HtmlToggleWireframe

AppSpec == AppInit /\ [][AppNext]_vars

----------------------------------------------------------------------------
(* The other two copies of the pipeline, and the three copies run on the *)
(* same decoded pixels with the same explicit resolution and heightScale *)

\* The TerrainGenerator class of the HTML build.

\* minBrightness after the first i pixels (starts at 255), times 10000.
RECURSIVE HtmlMinBrightness(_, _)
HtmlMinBrightness(data, i) ==
    IF i = 0 THEN 255 * 10000
    ELSE Min2(HtmlMinBrightness(data, i - 1), HtmlGrayscale(data[i]))

\* maxBrightness after the first i pixels (starts at 0), times 10000.
RECURSIVE HtmlMaxBrightness(_, _)
HtmlMaxBrightness(data, i) ==
    IF i = 0 THEN 0
    ELSE Max2(HtmlMaxBrightness(data, i - 1), HtmlGrayscale(data[i]))

\* heightData after the extraction loop: grayscale / 255 as float32.
HtmlRawHeights(data) == [i \in 1..Len(data) |-> Fround(HtmlGrayscale(data[i]), 255 * 10000)]

\* contrast > 0.7, with contrast = (maxBrightness - minBrightness) / 255
HtmlHighContrast(data) ==
    (HtmlMaxBrightness(data, Len(data)) - HtmlMinBrightness(data, Len(data))) * 10
        > 7 * 255 * 10000

\* One cell of the normalization loop:
\* Math.max(0, Math.min(1, (h * 255 - minBrightness) / (maxBrightness - minBrightness)))
HtmlNormalizeCell(h, minB, maxB) ==
    LET normalized == Div(Sub(Mul(h, Whole(255)), Num(minB, 10000, 0)),
                          Sub(Num(maxB, 10000, 0), Num(minB, 10000, 0)))
    IN  MathMax(Whole(0), MathMin(Whole(1), normalized))

\* heightData after the normalization loop.
HtmlNormalized(data) ==
    LET raw == HtmlRawHeights(data)
        minB == HtmlMinBrightness(data, Len(data))
        maxB == HtmlMaxBrightness(data, Len(data))
    IN  [i \in 1..Len(data) |-> HtmlNormalizeCell(raw[i], minB, maxB)]

HtmlSmoothRadius == 1

\* sum and count of one cell's window after its first k offsets, taken in
\* the order of the dy (outer) and dx (inner) loops.
RECURSIVE HtmlWindowAcc(_, _, _, _, _)
HtmlWindowAcc(h, R, x, y, k) ==
    IF k = 0 THEN <<Whole(0), 0>>
    ELSE LET side == 2 * HtmlSmoothRadius + 1
             prev == HtmlWindowAcc(h, R, x, y, k - 1)
             dy == ((k - 1) \div side) - HtmlSmoothRadius
             dx == ((k - 1) % side) - HtmlSmoothRadius
             nx == x + dx
             ny == y + dy
         IN  IF nx >= 0 /\ nx < R /\ ny >= 0 /\ ny < R
             THEN <<Add(prev[1], h[ny * R + nx + 1]), prev[2] + 1>>
             ELSE prev

\* smoothedData[y * resolution + x] = sum / count
HtmlSmoothCell(h, R, x, y) ==
    LET side == 2 * HtmlSmoothRadius + 1
        acc == HtmlWindowAcc(h, R, x, y, side * side)
    IN  Div(acc[1], Whole(acc[2]))

\* smoothedData after the smoothing loops, computed from heightData h.
HtmlSmoothed(h, R) == [i \in 1..Len(h) |-> HtmlSmoothCell(h, R, (i - 1) % R, (i - 1) \div R)]

\* The array img.onload resolves the promise with.
HtmlLoadHeightmapData(data, R) ==
    IF HtmlHighContrast(data) THEN HtmlSmoothed(HtmlNormalized(data), R) ELSE HtmlNormalized(data)

\* getTerrainColor: the hex value handed to new THREE.Color.
HtmlGetTerrainColor(normalizedHeight) ==
    IF Less(normalizedHeight, Num(2, 10, 0)) THEN 1982639        \* 0x1e40af
    ELSE IF Less(normalizedHeight, Num(4, 10, 0)) THEN 16498468  \* 0xfbbf24
    ELSE IF Less(normalizedHeight, Num(7, 10, 0)) THEN 1483594   \* 0x16a34a
    ELSE IF Less(normalizedHeight, Num(9, 10, 0)) THEN 7041664   \* 0x6b7280
    ELSE 16777215                                                \* 0xffffff

HtmlTerrainSize == 100

HtmlStepSize(R) == Div(Whole(HtmlTerrainSize), Whole(R - 1))

\* height = heightData[index] * heightScale
HtmlHeight(h, R, scale, z, x) == Mul(h[z * R + x + 1], Whole(scale))

\* vertices.push(worldX, height + 5, worldZ)
HtmlVertexPush(h, R, scale, z, x) ==
    <<Mul(Sub(Whole(x), Div(Whole(R), Whole(2))), HtmlStepSize(R)),
      Add(HtmlHeight(h, R, scale, z, x), Whole(5)),
      Mul(Sub(Whole(z), Div(Whole(R), Whole(2))), HtmlStepSize(R))>>

\* uvs.push(x / (resolution - 1), z / (resolution - 1))
HtmlUvPush(R, z, x) == <<Div(Whole(x), Whole(R - 1)), Div(Whole(z), Whole(R - 1))>>

\* colors.push(color.r, color.g, color.b), color = getTerrainColor(height / heightScale)
HtmlColorPush(h, R, scale, z, x) ==
    ColorChannels(HtmlGetTerrainColor(Div(HtmlHeight(h, R, scale, z, x), Whole(scale))))

\* The two indices.push calls of one quad.
HtmlIndexPush(R, z, x) ==
    LET topLeft == z * R + x
        topRight == z * R + x + 1
        bottomLeft == (z + 1) * R + x
        bottomRight == (z + 1) * R + x + 1
    IN  <<topLeft, bottomLeft, topRight, topRight, bottomLeft, bottomRight>>

HtmlVertexCells(R) == GridCells(R, R)

HtmlQuadCells(R) == GridCells(R - 1, R - 1)

HtmlGenerateTerrainGeometry(h, R, scale) ==
    LET vc == HtmlVertexCells(R)
        qc == HtmlQuadCells(R)
        vertices == Pushed([k \in 1..Len(vc) |-> HtmlVertexPush(h, R, scale, vc[k][1], vc[k][2])], Len(vc))
        colors == Pushed([k \in 1..Len(vc) |-> HtmlColorPush(h, R, scale, vc[k][1], vc[k][2])], Len(vc))
        uvs == Pushed([k \in 1..Len(vc) |-> HtmlUvPush(R, vc[k][1], vc[k][2])], Len(vc))
        indices == Pushed([k \in 1..Len(qc) |-> HtmlIndexPush(R, qc[k][1], qc[k][2])], Len(qc))
    IN  [position |-> vertices, color |-> colors, uv |-> uvs, index |-> indices,
         vertexCount |-> Len(vertices) \div 3, faceCount |-> Len(indices) \div 3]

\* The TerrainGenerator class of the standalone JavaScript build.

\* minBrightness after the first i pixels (starts at 255), times 10000.
RECURSIVE StandaloneMinBrightness(_, _)
StandaloneMinBrightness(data, i) ==
    IF i = 0 THEN 255 * 10000
    ELSE Min2(StandaloneMinBrightness(data, i - 1), StandaloneGrayscale(data[i]))

\* maxBrightness after the first i pixels (starts at 0), times 10000.
RECURSIVE StandaloneMaxBrightness(_, _)
StandaloneMaxBrightness(data, i) ==
    IF i = 0 THEN 0
    ELSE Max2(StandaloneMaxBrightness(data, i - 1), StandaloneGrayscale(data[i]))

\* heightData after the extraction loop: grayscale / 255 as float32.
StandaloneRawHeights(data) == [i \in 1..Len(data) |-> Fround(StandaloneGrayscale(data[i]), 255 * 10000)]

\* contrast > 0.7, with contrast = (maxBrightness - minBrightness) / 255
StandaloneHighContrast(data) ==
    (StandaloneMaxBrightness(data, Len(data)) - StandaloneMinBrightness(data, Len(data))) * 10
        > 7 * 255 * 10000

\* One cell of the normalization loop:
\* Math.max(0, Math.min(1, (h * 255 - minBrightness) / (maxBrightness - minBrightness)))
StandaloneNormalizeCell(h, minB, maxB) ==
    LET normalized == Div(Sub(Mul(h, Whole(255)), Num(minB, 10000, 0)),
                          Sub(Num(maxB, 10000, 0), Num(minB, 10000, 0)))
    IN  MathMax(Whole(0), MathMin(Whole(1), normalized))

\* heightData after the normalization loop.
StandaloneNormalized(data) ==
    LET raw == StandaloneRawHeights(data)
        minB == StandaloneMinBrightness(data, Len(data))
        maxB == StandaloneMaxBrightness(data, Len(data))
    IN  [i \in 1..Len(data) |-> StandaloneNormalizeCell(raw[i], minB, maxB)]

StandaloneSmoothRadius == 1

\* sum and count of one cell's window after its first k offsets, taken in
\* the order of the dy (outer) and dx (inner) loops.
RECURSIVE StandaloneWindowAcc(_, _, _, _, _)
StandaloneWindowAcc(h, R, x, y, k) ==
    IF k = 0 THEN <<Whole(0), 0>>
    ELSE LET side == 2 * StandaloneSmoothRadius + 1
             prev == StandaloneWindowAcc(h, R, x, y, k - 1)
             dy == ((k - 1) \div side) - StandaloneSmoothRadius
             dx == ((k - 1) % side) - StandaloneSmoothRadius
             nx == x + dx
             ny == y + dy
         IN  IF nx >= 0 /\ nx < R /\ ny >= 0 /\ ny < R
             THEN <<Add(prev[1], h[ny * R + nx + 1]), prev[2] + 1>>
             ELSE prev

\* smoothedData[y * resolution + x] = sum / count
StandaloneSmoothCell(h, R, x, y) ==
    LET side == 2 * StandaloneSmoothRadius + 1
        acc == StandaloneWindowAcc(h, R, x, y, side * side)
    IN  Div(acc[1], Whole(acc[2]))

\* smoothedData after the smoothing loops, computed from heightData h.
StandaloneSmoothed(h, R) == [i \in 1..Len(h) |-> StandaloneSmoothCell(h, R, (i - 1) % R, (i - 1) \div R)]

\* The array img.onload resolves the promise with.
StandaloneLoadHeightmapData(data, R) ==
    IF StandaloneHighContrast(data) THEN StandaloneSmoothed(StandaloneNormalized(data), R) ELSE StandaloneNormalized(data)

\* getTerrainColor: the hex value handed to new THREE.Color.
StandaloneGetTerrainColor(normalizedHeight) ==
    IF Less(normalizedHeight, Num(2, 10, 0)) THEN 1982639        \* 0x1e40af
    ELSE IF Less(normalizedHeight, Num(4, 10, 0)) THEN 16498468  \* 0xfbbf24
    ELSE IF Less(normalizedHeight, Num(7, 10, 0)) THEN 1483594   \* 0x16a34a
    ELSE IF Less(normalizedHeight, Num(9, 10, 0)) THEN 7041664   \* 0x6b7280
    ELSE 16777215                                                \* 0xffffff

StandaloneTerrainSize == 100

StandaloneStepSize(R) == Div(Whole(StandaloneTerrainSize), Whole(R - 1))

\* height = heightData[index] * heightScale
StandaloneHeight(h, R, scale, z, x) == Mul(h[z * R + x + 1], Whole(scale))

\* vertices.push(worldX, height + 5, worldZ)
StandaloneVertexPush(h, R, scale, z, x) ==
    <<Mul(Sub(Whole(x), Div(Whole(R), Whole(2))), StandaloneStepSize(R)),
      Add(StandaloneHeight(h, R, scale, z, x), Whole(5)),
      Mul(Sub(Whole(z), Div(Whole(R), Whole(2))), StandaloneStepSize(R))>>

\* uvs.push(x / (resolution - 1), z / (resolution - 1))
StandaloneUvPush(R, z, x) == <<Div(Whole(x), Whole(R - 1)), Div(Whole(z), Whole(R - 1))>>

\* colors.push(color.r, color.g, color.b), color = getTerrainColor(height / heightScale)
StandaloneColorPush(h, R, scale, z, x) ==
    ColorChannels(StandaloneGetTerrainColor(Div(StandaloneHeight(h, R, scale, z, x), Whole(scale))))

\* The two indices.push calls of one quad.
StandaloneIndexPush(R, z, x) ==
    LET topLeft == z * R + x
        topRight == z * R + x + 1
        bottomLeft == (z + 1) * R + x
        bottomRight == (z + 1) * R + x + 1
    IN  <<topLeft, bottomLeft, topRight, topRight, bottomLeft, bottomRight>>

StandaloneVertexCells(R) == GridCells(R, R)

StandaloneQuadCells(R) == GridCells(R - 1, R - 1)

StandaloneGenerateTerrainGeometry(h, R, scale) ==
    LET vc == StandaloneVertexCells(R)
        qc == StandaloneQuadCells(R)
        vertices == Pushed([k \in 1..Len(vc) |-> StandaloneVertexPush(h, R, scale, vc[k][1], vc[k][2])], Len(vc))
        colors == Pushed([k \in 1..Len(vc) |-> StandaloneColorPush(h, R, scale, vc[k][1], vc[k][2])], Len(vc))
        uvs == Pushed([k \in 1..Len(vc) |-> StandaloneUvPush(R, vc[k][1], vc[k][2])], Len(vc))
        indices == Pushed([k \in 1..Len(qc) |-> StandaloneIndexPush(R, qc[k][1], qc[k][2])], Len(qc))
    IN  [position |-> vertices, color |-> colors, uv |-> uvs, index |-> indices,
         vertexCount |-> Len(vertices) \div 3, faceCount |-> Len(indices) \div 3]

\* Decoded images of low and of high contrast, in grey and in colour.
CopyImages(R) ==
    LET grey == <<Gray(0), Gray(128), Gray(254)>>
        colour == <<<<17, 72, 32>>, Gray(128), <<242, 255, 29>>>>
    IN  {Checkerboard(R), Gradient(R),
         SpotImage(grey, R, 1, 1, 3, R * R, 2),
         SpotImage(colour, R, 1, 1, 2, R * R, 3),
         SpotImage(colour, R, 2, 2, 1, 3, 3),
         [i \in 1..(R * R) |-> <<200, 30, 90>>]}

CopiesInit ==
    /\ pc = "idle"
    /\ resolution \in Resolutions
    /\ pixels \in CopyImages(resolution)
    /\ heightScale \in HeightScales
    /\ heightData = <<>>
    /\ result = NoResult
    /\ error = ""
    /\ probeHeight = Whole(0)
    /\ color = 0
    /\ analysis = NoAnalysis
    /\ calls = <<>>
    /\ grayscale = 0
    /\ smoothedData = <<>>
    /\ UiIdle

\* processHeightmap of terrainGenerator.ts, from the call to the return.
TerrainGeneratorProcessHeightmap ==
    /\ pc = "idle"
    /\ \A k \in 1..Len(calls) : calls[k].copy # "terrainGenerator.ts"
    /\ LET h == LoadHeightmapData(pixels, resolution)
       IN  calls' = Append(calls, [copy |-> "terrainGenerator.ts", heightData |-> h,
                                   result |-> GenerateTerrainGeometry(h, resolution, heightScale)])
    /\ UNCHANGED <<uiVars, smoothedData, pc, pixels, resolution, heightScale, heightData, result,
                   error, probeHeight, color, analysis, grayscale>>

\* processHeightmap of the HTML build, from the call to the return.
HtmlProcessHeightmap ==
    /\ pc = "idle"
    /\ \A k \in 1..Len(calls) : calls[k].copy # "html"
    /\ LET h == HtmlLoadHeightmapData(pixels, resolution)
       IN  calls' = Append(calls, [copy |-> "html", heightData |-> h,
                                   result |-> HtmlGenerateTerrainGeometry(h, resolution, heightScale)])
    /\ UNCHANGED <<uiVars, smoothedData, pc, pixels, resolution, heightScale, heightData, result,
                   error, probeHeight, color, analysis, grayscale>>

\* processHeightmap of the standalone build, from the call to the return.
StandaloneProcessHeightmap ==
    /\ pc = "idle"
    /\ \A k \in 1..Len(calls) : calls[k].copy # "standalone"
    /\ LET h == StandaloneLoadHeightmapData(pixels, resolution)
       IN  calls' = Append(calls, [copy |-> "standalone", heightData |-> h,
                                   result |-> StandaloneGenerateTerrainGeometry(h, resolution, heightScale)])
    /\ UNCHANGED <<uiVars, smoothedData, pc, pixels, resolution, heightScale, heightData, result,
                   error, probeHeight, color, analysis, grayscale>>

CopiesNext ==
    TerrainGeneratorProcessHeightmap \/ HtmlProcessHeightmap \/ StandaloneProcessHeightmap

CopiesSpec == CopiesInit /\ [][CopiesNext]_vars

----------------------------------------------------------------------------
(* Properties *)

Resolved == pc \in {"loaded", "returned"}

\* The luminances of the image and their true minimum and maximum.
LumSet == {Grayscale(pixels[i]) : i \in 1..Len(pixels)}

TrueMin == CHOOSE m \in LumSet : \A k \in LumSet : m <= k

TrueMax == CHOOSE m \in LumSet : \A k \in LumSet : m >= k

\* contrast = (max - min) / 255 compared with 0.7, in units of 1/10000.
ContrastAbove == (TrueMax - TrueMin) * 10 > 7 * 255 * 10000

ContrastExactly == (TrueMax - TrueMin) * 10 = 7 * 255 * 10000

Vertices == 0..(resolution * resolution - 1)

\* C1: every value of the height field resolved by loadHeightmapData is a
\* finite number in [0, 1], for every image, uniform ones included.
C1_HeightsInUnitRange ==
    Resolved =>
        \A i \in 1..Len(heightData) :
            /\ heightData[i][2] > 0
            /\ 0 <= heightData[i][1]
            /\ heightData[i][1] <= heightData[i][2]
            /\ (heightData[i][1] = 0 => heightData[i][3] >= 0)
            /\ (heightData[i][1] = heightData[i][2] => heightData[i][3] <= 0)

\* C2: flat-image law: for a uniform image (max = min) the height field is
\* the constant 0, every vertex has y = 5 and the colour of height 0,
\* deep blue 0x1e40af = (30, 64, 175).
C2_FlatImageLaw ==
    (pc = "returned" /\ TrueMax = TrueMin) =>
        \A v \in Vertices :
            /\ heightData[v + 1] = <<0, 1, 0>>
            /\ result.position[3 * v + 2] = <<5, 1, 0>>
            /\ result.color[3 * v + 1] = 30
            /\ result.color[3 * v + 2] = 64
            /\ result.color[3 * v + 3] = 175

\* C3: shape invariant: vertexCount = R*R and faceCount = 2*(R-1)*(R-1); the
\* position and colour arrays hold 3*R*R numbers, the UV array 2*R*R and
\* the index array 6*(R-1)*(R-1).
C3_Shape ==
    pc = "returned" =>
        /\ result.vertexCount = resolution * resolution
        /\ result.faceCount = 2 * (resolution - 1) * (resolution - 1)
        /\ Len(result.position) = 3 * resolution * resolution
        /\ Len(result.color) = 3 * resolution * resolution
        /\ Len(result.uv) = 2 * resolution * resolution
        /\ Len(result.index) = 6 * (resolution - 1) * (resolution - 1)

C3_Witness == pc = "returned" /\ resolution = 3 /\ result.faceCount = 8

\* C4: every entry of the index buffer is an integer i with 0 <= i < R*R.
C4_IndicesValid ==
    pc = "returned" =>
        \A k \in 1..Len(result.index) : result.index[k] \in Vertices

C4_Witness ==
    /\ pc = "returned"
    /\ \E k \in 1..Len(result.index) : result.index[k] = resolution * resolution - 1

\* C5: triangulation winding: the quads are listed row-major (z outer, x
\* inner) and quad (z, x) contributes (topLeft, bottomLeft, topRight,
\* topRight, bottomLeft, bottomRight); for R = 2 the buffer is [0,2,1,1,2,3].
C5_Winding ==
    pc = "returned" =>
        /\ \A z \in 0..(resolution - 2) : \A x \in 0..(resolution - 2) :
              LET base == 6 * (z * (resolution - 1) + x)
                  tl == z * resolution + x
                  bl == (z + 1) * resolution + x
              IN  /\ base + 6 <= Len(result.index)
                  /\ result.index[base + 1] = tl
                  /\ result.index[base + 2] = bl
                  /\ result.index[base + 3] = tl + 1
                  /\ result.index[base + 4] = tl + 1
                  /\ result.index[base + 5] = bl
                  /\ result.index[base + 6] = bl + 1
        /\ Len(result.index) = 6 * (resolution - 1) * (resolution - 1)
        /\ (resolution = 2 => result.index = <<0, 2, 1, 1, 2, 3>>)

C5_Witness == pc = "returned" /\ resolution = 2 /\ result.index = <<0, 2, 1, 1, 2, 3>>

\* The normalized field the claims speak of: clamp((v - min) / (max - min), 0, 1)
\* of the luminance v of pixel i, for an image with max > min.
ClampedRatio(i) ==
    LET g == Gcd(Grayscale(pixels[i]) - TrueMin, TrueMax - TrueMin)
    IN  <<(Grayscale(pixels[i]) - TrueMin) \div g, (TrueMax - TrueMin) \div g, 0>>

\* C6: normalization maps every luminance v to clamp((v - min) / (max - min),
\* 0, 1); when max > min the darkest pixels map to exactly 0 and the
\* brightest to exactly 1.
C6_NormalizationExact ==
    (pc = "loaded" /\ TrueMax > TrueMin) =>
        LET field == Normalized(pixels)
        IN  \A i \in 1..Len(pixels) :
                /\ field[i][1] = ClampedRatio(i)[1]
                /\ field[i][2] = ClampedRatio(i)[2]
                /\ (Grayscale(pixels[i]) \in {TrueMin, TrueMax} => field[i][3] = 0)

\* C7: when contrast <= 0.7 (0.7 included) the resolved height field equals
\* the normalized field cell for cell.
C7_LowContrastUnsmoothed ==
    (pc = "loaded" /\ ~ContrastAbove) => heightData = Normalized(pixels)

C7_Witness == pc = "loaded" /\ ContrastExactly /\ heightData = Normalized(pixels)

\* The cells within Chebyshev distance 1 of (x, y) that lie inside the grid,
\* as indices into the field.
Window(x, y) ==
    { ny * resolution + nx + 1 :
        nx \in {k \in 0..(resolution - 1) : k - x \in {-1, 0, 1}},
        ny \in {k \in 0..(resolution - 1) : k - y \in {-1, 0, 1}} }

RECURSIVE SumOver(_, _)
SumOver(h, S) ==
    IF S = {} THEN <<0, 1, 0>>
    ELSE LET i == CHOOSE j \in S : TRUE
         IN  Add(h[i], SumOver(h, S \ {i}))

\* 3 along an axis for a coordinate strictly inside the grid, else 2.
Span(c) == IF 0 < c /\ c < resolution - 1 THEN 3 ELSE 2

\* C8: when contrast > 0.7 every cell of the resolved field is the mean of
\* the normalized values of the in-grid cells within distance 1: 9 samples
\* for an interior cell, 6 on an edge, 4 in a corner, no wrapping.
C8_SmoothingIsWindowMean ==
    (pc = "loaded" /\ ContrastAbove) =>
        LET field == Normalized(pixels)
        IN  \A x \in 0..(resolution - 1) : \A y \in 0..(resolution - 1) :
                /\ Cardinality(Window(x, y)) = Span(x) * Span(y)
                /\ heightData[y * resolution + x + 1] =
                       Div(SumOver(field, Window(x, y)), <<Span(x) * Span(y), 1, 0>>)

\* An interior cell whose 9-sample mean differs from its own value.
C8_Witness ==
    /\ pc = "loaded"
    /\ ContrastAbove
    /\ resolution = 3
    /\ heightData[5] # Normalized(pixels)[5]
    /\ heightData[5] = Div(SumOver(Normalized(pixels), 1..9), <<9, 1, 0>>)

\* C9: for every image with contrast > 0.7, the checkerboard of 0 and 255
\* among them, the resolved field differs from the normalized field in at
\* least one cell.
C9_HighContrastChanged ==
    (pc = "loaded" /\ ContrastAbove) =>
        LET field == Normalized(pixels)
        IN  \E i \in 1..Len(heightData) :
                heightData[i][1] * field[i][2] # field[i][1] * heightData[i][2]

C9_Witness ==
    /\ pc = "loaded"
    /\ resolution = 3
    /\ pixels = Checkerboard(3)
    /\ heightData[5] = <<4, 9, 0>>

\* The band of k/m read off the table of the classifier: deep blue below
\* 0.2, amber below 0.4, green below 0.7, gray below 0.9, white from 0.9 on.
Band(k, m) ==
    IF 10 * k < 2 * m THEN 1982639
    ELSE IF 10 * k < 4 * m THEN 16498468
    ELSE IF 10 * k < 7 * m THEN 1483594
    ELSE IF 10 * k < 9 * m THEN 7041664
    ELSE 16777215

\* C10: getTerrainColor maps h in [0, 1] to deep blue for h < 0.2, amber for
\* 0.2 <= h < 0.4, green for 0.4 <= h < 0.7, gray for 0.7 <= h < 0.9 and
\* white for 0.9 <= h <= 1; 0.1999, 0.2, 0.3999, 0.4, 0.6999, 0.7, 0.8999,
\* 0.9, 1.0 are water, beach, beach, green, green, gray, gray, white, white.
C10_BiomeBoundaries ==
    pc = "classified" =>
        /\ color = Band(probeHeight[1], probeHeight[2])
        /\ (probeHeight = <<1999, 10000, 0>> => color = 1982639)
        /\ (probeHeight = <<1, 5, 0>> => color = 16498468)
        /\ (probeHeight = <<3999, 10000, 0>> => color = 16498468)
        /\ (probeHeight = <<2, 5, 0>> => color = 1483594)
        /\ (probeHeight = <<6999, 10000, 0>> => color = 1483594)
        /\ (probeHeight = <<7, 10, 0>> => color = 7041664)
        /\ (probeHeight = <<8999, 10000, 0>> => color = 7041664)
        /\ (probeHeight = <<9, 10, 0>> => color = 16777215)
        /\ (probeHeight = <<1, 1, 0>> => color = 16777215)

C10_Witness == pc = "classified" /\ probeHeight = <<7, 10, 0>> /\ color = 7041664

\* C11: for every vertex index i = z*R + x, the colour triple at
\* colours[3i..3i+2] is the band of the height field value field[i] (the
\* classifier sees the elevation divided by heightScale, not the scaled
\* elevation), and position i and UV i belong to the same cell (x, z).
C11_ColourOfOwnCell ==
    pc = "returned" =>
        \A z \in 0..(resolution - 1) : \A x \in 0..(resolution - 1) :
            LET i == z * resolution + x
                band == ColorChannels(GetTerrainColor(heightData[i + 1]))
            IN  /\ 3 * i + 3 <= Len(result.color)
                /\ result.color[3 * i + 1] = band[1]
                /\ result.color[3 * i + 2] = band[2]
                /\ result.color[3 * i + 3] = band[3]
                /\ (IsFinite(heightData[i + 1]) =>
                       ColorChannels(Band(heightData[i + 1][1], heightData[i + 1][2])) = band)
                /\ result.uv[2 * i + 1] = Num(x, resolution - 1, 0)
                /\ result.uv[2 * i + 2] = Num(z, resolution - 1, 0)
                /\ result.position[3 * i + 2] =
                       Add(Mul(heightData[i + 1], Whole(heightScale)), Whole(5))

\* A vertex of height 1/2 is green at heightScale 20, where its scaled
\* elevation 10 would classify as white, next to a vertex of another band.
C11_Witness ==
    /\ pc = "returned"
    /\ heightScale = 20
    /\ heightData[2][1] = 1 /\ heightData[2][2] = 2
    /\ result.color[4] = 22 /\ result.color[5] = 163 /\ result.color[6] = 74
    /\ result.color[1] = 30

\* (c - R/2) * 100/(R - 1) as a fraction.
WorldCoordinate(c) == Num((2 * c - resolution) * 50, resolution - 1, 0)

\* C13: vertex placement: with stepSize = 100/(R-1), the vertex of grid
\* cell (x, z) is written at index z*R + x with position
\* ((x - R/2)*stepSize, field[z*R+x]*heightScale + 5, (z - R/2)*stepSize).
C13_VertexPlacement ==
    pc = "returned" =>
        \A z \in 0..(resolution - 1) : \A x \in 0..(resolution - 1) :
            LET i == z * resolution + x
                field == heightData[i + 1]
            IN  /\ 3 * i + 3 <= Len(result.position)
                /\ result.position[3 * i + 1] = WorldCoordinate(x)
                /\ result.position[3 * i + 3] = WorldCoordinate(z)
                /\ (IsFinite(field) =>
                       result.position[3 * i + 2] =
                           Num(field[1] * heightScale + 5 * field[2], field[2], field[3]))
                /\ (~IsFinite(field) => result.position[3 * i + 2] = field)

\* R = 3, stepSize 50: the last vertex lies at x = z = 25 (the first at
\* -75), its height 1 lifted to 20 + 5.
C13_Witness ==
    /\ pc = "returned"
    /\ resolution = 3
    /\ heightScale = 20
    /\ result.position[1] = <<-75, 1, 0>>
    /\ result.position[25] = <<25, 1, 0>>
    /\ result.position[26] = <<25, 1, 0>>
    /\ result.position[27] = <<25, 1, 0>>

\* The u and v components of the UV of vertex (x, z).
U(z, x) == result.uv[2 * (z * resolution + x) + 1]

V(z, x) == result.uv[2 * (z * resolution + x) + 2]

\* C14: for every R >= 2 the UV of vertex (x, z) is (x/(R-1), z/(R-1));
\* every component lies in [0, 1], u is strictly increasing in x along each
\* row and v strictly increasing in z along each column, and the corners
\* are exactly 0 and 1.
C14_UvGrid ==
    pc = "returned" =>
        /\ Len(result.uv) = 2 * resolution * resolution
        /\ \A z \in 0..(resolution - 1) : \A x \in 0..(resolution - 1) :
              /\ U(z, x)[1] * (resolution - 1) = x * U(z, x)[2]
              /\ V(z, x)[1] * (resolution - 1) = z * V(z, x)[2]
              /\ U(z, x)[3] = 0 /\ V(z, x)[3] = 0
              /\ U(z, x)[2] > 0 /\ 0 <= U(z, x)[1] /\ U(z, x)[1] <= U(z, x)[2]
              /\ V(z, x)[2] > 0 /\ 0 <= V(z, x)[1] /\ V(z, x)[1] <= V(z, x)[2]
              /\ (x > 0 => Less(U(z, x - 1), U(z, x)))
              /\ (z > 0 => Less(V(z - 1, x), V(z, x)))
        /\ U(0, 0) = <<0, 1, 0>> /\ V(0, 0) = <<0, 1, 0>>
        /\ U(resolution - 1, resolution - 1) = <<1, 1, 0>>
        /\ V(resolution - 1, resolution - 1) = <<1, 1, 0>>

\* R = 3: u runs 0, 1/2, 1 along the first row and v down the first column.
C14_Witness ==
    /\ pc = "returned"
    /\ resolution = 3
    /\ U(0, 0) = <<0, 1, 0>> /\ U(0, 1) = <<1, 2, 0>> /\ U(0, 2) = <<1, 1, 0>>
    /\ V(0, 0) = <<0, 1, 0>> /\ V(1, 0) = <<1, 2, 0>> /\ V(2, 0) = <<1, 1, 0>>

\* The y coordinate of vertex v in the result of call c.
WorldY(c, v) == calls[c].result.position[3 * v + 2]

\* C12: scale invariance: two runs on the same height field and resolution
\* with different positive heightScale values (5 and 20) give identical
\* colour, UV and index arrays and identical x and z; the positions differ
\* in y only, and y - 5 is proportional to heightScale.
C12_ScaleInvariance ==
    \A a \in 1..Len(calls) : \A b \in 1..Len(calls) :
        ( /\ calls[a].heightData = calls[b].heightData
          /\ calls[a].resolution = calls[b].resolution
          /\ calls[a].heightScale > 0
          /\ calls[b].heightScale > 0 ) =>
            /\ calls[a].result.color = calls[b].result.color
            /\ calls[a].result.uv = calls[b].result.uv
            /\ calls[a].result.index = calls[b].result.index
            /\ Len(calls[a].result.position) = Len(calls[b].result.position)
            /\ \A v \in 0..(calls[a].resolution * calls[a].resolution - 1) :
                  /\ calls[a].result.position[3 * v + 1] = calls[b].result.position[3 * v + 1]
                  /\ calls[a].result.position[3 * v + 3] = calls[b].result.position[3 * v + 3]
                  /\ Mul(Sub(WorldY(a, v), Whole(5)), Whole(calls[b].heightScale))
                         = Mul(Sub(WorldY(b, v), Whole(5)), Whole(calls[a].heightScale))

\* The gradient at heightScale 5 and then at 20: its second vertex, of
\* height 1, lies at y = 10 and y = 25, and is white in both runs.
C12_Witness ==
    /\ Len(calls) >= 2
    /\ calls[1].pixels = Gradient(2) /\ calls[2].pixels = Gradient(2)
    /\ calls[1].heightScale = 5 /\ calls[2].heightScale = 20
    /\ WorldY(1, 1) = <<10, 1, 0>> /\ WorldY(2, 1) = <<25, 1, 0>>
    /\ calls[1].result.color = calls[2].result.color
    /\ calls[1].result.color[4] = 255

\* C15: every heightmap loader of the repository (terrainGenerator.ts, the
\* HTML build, the standalone build, the HeightmapProcessor component)
\* computes the luminance of (r, g, b) as 0.2126*r + 0.7152*g + 0.0722*b.
C15_FixedWeights ==
    pc \in {"terrainGenerator.ts", "terrain-generator-complete.html",
            "standalone build", "HeightmapProcessor"} =>
        grayscale = 2126 * pixels[1][1] + 7152 * pixels[1][2] + 722 * pixels[1][3]

\* The sum of the luminances of the pixels with index in S, taken in no
\* particular order.
RECURSIVE LumSum(_)
LumSum(S) ==
    IF S = {} THEN 0
    ELSE LET i == CHOOSE j \in S : TRUE
         IN  Grayscale(pixels[i]) + LumSum(S \ {i})

\* The pixels visited last to first.
Reversed == [i \in 1..Len(pixels) |-> pixels[Len(pixels) + 1 - i]]

\* C16: the statistics gathered during luminance extraction are the true
\* minimum, maximum and arithmetic mean (sum / R*R) of the R*R luminances,
\* whatever the order the pixels are visited in, and contrast is
\* (max - min)/255, a number in [0, 1].
C16_Statistics ==
    pc = "loaded" =>
        /\ analysis.minBrightness = TrueMin
        /\ analysis.maxBrightness = TrueMax
        /\ analysis.avgBrightness
               = Num(LumSum(1..Len(pixels)), 10000 * resolution * resolution, 0)
        /\ analysis = ImageAnalysis(Reversed, resolution)
        /\ analysis.contrast = Num(TrueMax - TrueMin, 255 * 10000, 0)
        /\ analysis.contrast[2] > 0
        /\ 0 <= analysis.contrast[1]
        /\ analysis.contrast[1] <= analysis.contrast[2]

\* The 3x3 gradient: minimum 100, maximum 150, mean 125, contrast 50/255.
C16_Witness ==
    /\ pc = "loaded"
    /\ pixels = Gradient(3)
    /\ analysis.minBrightness = 1000000
    /\ analysis.maxBrightness = 1500000
    /\ analysis.avgBrightness = <<125, 1, 0>>
    /\ analysis.contrast = <<10, 51, 0>>

\* C17: a call with resolution R < 2, or with a pixel sequence whose length
\* is not R*R, is rejected with an error and produces no geometry.
C17_InputShapeRejected ==
    (resolution < 2 \/ Len(pixels) # resolution * resolution) =>
        /\ pc # "returned"
        /\ result = NoResult

\* C18: a call with heightScale <= 0 is rejected with an error instead of
\* returning a geometry.
C18_HeightScaleRejected ==
    heightScale <= 0 =>
        /\ pc # "returned"
        /\ result = NoResult

\* C19: a uniform image (max = min) is never surfaced as a failure: once
\* an image, uniform or not, has been decoded, the only step of the call
\* is to return a TerrainResult, and the only rejections there are come
\* from a missing canvas context and from an image that failed to load.
C19_DecodedImageResolves ==
    [][ /\ (pc = "loaded" =>
               /\ pc' = "returned"
               /\ error' = ""
               /\ result'.vertexCount = resolution * resolution)
        /\ (pc' = "rejected" =>
               /\ pc = "loading"
               /\ error' \in {"Could not get canvas context",
                              "Failed to load heightmap image"}) ]_vars

\* A uniform 2x2 image has gone through the whole call.
C19_Witness ==
    /\ pc = "returned"
    /\ resolution = 2
    /\ TrueMax = TrueMin
    /\ error = ""
    /\ result.vertexCount = 4
    /\ result.faceCount = 2

C21_FailedLoadChangesNothing ==
    [][ \A k \in 1..Len(loads') :
            loads'[k].pc = "rejected" =>
                /\ loads'[k].error \in {"Could not get canvas context",
                                        "Failed to load heightmap image"}
                /\ ~loads'[k].dispatched
                /\ ~loads'[k].delivered
                /\ viewer'.geometry # k
                /\ controls'.stats # k
                /\ ((k > Len(loads) \/ loads[k].pc = "loading") =>
                       /\ viewer' = viewer
                       /\ controls'.stats = controls.stats)
                /\ ((k <= Len(loads) /\ loads[k].pc = "rejected") =>
                       loads'[k] = loads[k]) ]_vars

\* The second upload has failed after the first one was displayed.
C21_Witness ==
    /\ Len(loads) = 2
    /\ loads[1].pc = "returned"
    /\ loads[2].pc = "rejected"
    /\ loads[2].error = "Failed to load heightmap image"
    /\ viewer.geometry = 1
    /\ controls.stats = 1

\* C22: whenever the viewer accepts a new geometry for the terrain mesh
\* (heightmapProcessed handler, generateDefaultTerrain handler,
\* TerrainViewer.loadHeightmap) the geometry the mesh holds at that moment
\* is disposed before the new one is assigned, so every geometry that was
\* ever replaced has been disposed.
C22_ReplacedGeometryDisposed ==
    [][ /\ (viewer'.geometry # viewer.geometry => viewer.geometry \in viewer'.disposed)
        /\ viewer.disposed \subseteq viewer'.disposed
        /\ \A k \in 1..Len(loads') :
               (loads'[k].delivered /\ (k > Len(loads) \/ ~loads[k].delivered)) =>
                   /\ viewer'.geometry = k
                   /\ viewer.geometry \in viewer'.disposed ]_vars

\* Two uploads were displayed one after the other: the default geometry
\* and the first upload's have been disposed.
C22_Witness ==
    /\ Len(loads) = 2
    /\ loads[1].delivered /\ loads[2].delivered
    /\ viewer.geometry = 2
    /\ viewer.disposed = {0, 1}

\* C23: smoothing is a single pass over a separate output buffer: every
\* smoothed cell is computed from the normalized values only, never from a
\* neighbour smoothed earlier in the pass, so the result is the same for
\* every order in which the cells are processed.
C23_SinglePassSmoothing ==
    LET field == Normalized(pixels)
    IN  /\ (pc = "smoothing" =>
               /\ heightData = field
               /\ \A i \in DOMAIN smoothedData :
                      LET x == (i - 1) % resolution
                          y == (i - 1) \div resolution
                      IN  smoothedData[i] =
                              Div(SumOver(field, Window(x, y)), <<Span(x) * Span(y), 1, 0>>))
        /\ (pc = "loaded" => heightData = LoadHeightmapData(pixels, resolution))

\* The centre and the last cell of the 3x3 checkerboard were smoothed
\* before any other cell.
C23_Witness ==
    /\ pc = "smoothing"
    /\ pixels = Checkerboard(3)
    /\ DOMAIN smoothedData = {5, 9}
    /\ smoothedData[5] = <<4, 9, 0>>
    /\ smoothedData[9] = <<1, 2, 0>>

\* C24: when two heightmap uploads overlap, the terrain displayed once both
\* have completed is the one of the upload that was started last, whatever
\* the order in which the two image loads complete.
C24_LastStartedUploadShown ==
    ( /\ Len(loads) >= 2
      /\ \A k \in 1..Len(loads) : loads[k].pc = "returned" /\ loads[k].delivered
      /\ viewer.geometry # 0 ) =>
        /\ viewer.geometry = Len(loads)
        /\ controls.stats = Len(loads)

\* C25: in the React viewer, after any sequence of heightmapProcessed and
\* generateDefaultTerrain events the geometry assigned to the terrain mesh
\* is one that has not been disposed.
C25_MeshGeometryNotDisposed ==
    (build = "react" /\ viewer.mounted) => viewer.geometry \notin viewer.disposed

\* C26: once a heightmapProcessed event carrying colours has been
\* delivered, the solid material shown whenever wireframe mode is off has
\* vertexColors enabled, for every interleaving of wireframe toggles and
\* heightmap events.
C26_VertexColorsKept ==
    ( /\ \E k \in 1..Len(loads) : loads[k].delivered
      /\ viewer.material = "solid" ) => viewer.materialVertexColors

\* C27: in the React application the material of the terrain mesh is the
\* wireframe material exactly when the controls' isWireframe flag is true,
\* toggles made before the viewer has mounted included.
C27_MaterialFollowsFlag ==
    (build = "react" /\ viewer.mounted) =>
        (viewer.material = "wireframe" <=> controls.isWireframe)

\* C28: the controls' isProcessing flag is true exactly while at least one
\* heightmap load is in flight.
C28_ProcessingWhileInFlight ==
    controls.isProcessing <=> \E k \in 1..Len(loads) : loads[k].pc = "loading"

\* C29: the three copies of the pipeline are equivalent: run on the same
\* pixels with the same explicit resolution and heightScale, they produce the
\* same height field and the same position, colour, UV and index arrays.
C29_CopiesEquivalent ==
    \A a \in 1..Len(calls) : \A b \in 1..Len(calls) :
        /\ calls[a].heightData = calls[b].heightData
        /\ calls[a].result.position = calls[b].result.position
        /\ calls[a].result.color = calls[b].result.color
        /\ calls[a].result.uv = calls[b].result.uv
        /\ calls[a].result.index = calls[b].result.index

C29_Witness ==
    /\ Len(calls) = 3
    /\ {calls[k].copy : k \in 1..3} = {"terrainGenerator.ts", "html", "standalone"}
    /\ resolution = 3
    /\ pixels[2] = <<17, 72, 32>>
    /\ \E i \in 1..9 : \E j \in 1..9 : calls[3].heightData[i] # calls[3].heightData[j]

\* C30: for every decoded image, every R >= 2 and every heightScale > 0, each
\* vertex of the returned mesh has a y coordinate with 5 <= y <= 5 + heightScale.
C30_HeightAboveOffset ==
    (pc = "returned" /\ resolution >= 2 /\ heightScale > 0) =>
        \A v \in Vertices :
            LET y == result.position[3 * v + 2]
            IN  /\ ~IsNaN(y)
                /\ ~Less(y, Whole(5))
                /\ ~Less(Whole(5 + heightScale), y)

====
